---- MODULE Spec2Model ----
(***************************************************************************)
(* Auth Dashboard API (FastAPI backend): registration, login, bearer-token *)
(* identity resolution and the owner-scoped task operations.               *)
(*                                                                         *)
(* State: the user table, the task table, the register requests that have  *)
(* passed the e-mail pre-check and not yet inserted, the wall clock, and    *)
(* the last request served with its response.  `issued` and `creator` are  *)
(* history variables: the tokens handed out by successful logins and the   *)
(* authenticated user that created each task.                              *)
(*                                                                         *)
(* app/auth.py, app/models.py and app/database.py are not part of the      *)
(* sources at hand; the password codec, the token codec and the tables'    *)
(* constraints are modelled from the written specification.                *)
(*                                                                         *)
(* Three specifications share the state and the operators:                 *)
(*   Spec       register, login, GET /users/me and the clock, from empty   *)
(*              tables;                                                    *)
(*   SpecStore  Spec with the store's operator removing user rows;         *)
(*   SpecTasks  the task routes, from the state of Spec in which two users *)
(*              have registered and logged in.                             *)
(* The task routes read the user table only through get_current_user and   *)
(* the auth routes never touch the task table.                             *)
(*                                                                         *)
(* register is two steps, its pre-check and its insert, so that requests   *)
(* interleave between them; every other handler is one step (its queries   *)
(* run in one session).  The columns created_at and updated_at are left    *)
(* out: no handler reads them.                                             *)
(***************************************************************************)
EXTENDS Integers, Sequences, FiniteSets, Bags, TLC

VARIABLES users, pending, issued, now, tasks, creator, last

vars == <<users, pending, issued, now, tasks, creator, last>>

(***************************************************************************)
(* Bounds of the model.                                                    *)
(***************************************************************************)
MaxInFlight == 2
MaxTokens == 2
MaxTime == 59
MaxUserId == 2
MaxTaskId == 2

(***************************************************************************)
(* Input domains.                                                          *)
(***************************************************************************)
None == "null"
NoUser == 0
Emails == {"a@x.io", "b@x.io"}
Names == {"Ann"}
Passwords == {"pw1", "pw2"}
Salts == {"s1"}

(***************************************************************************)
(* config.py                                                               *)
(***************************************************************************)
SECRET_KEY == "your-secret-key-change-in-production"
ACCESS_TOKEN_EXPIRE_MINUTES == 30

(***************************************************************************)
(* Responses.  An HTTPException(status_code, detail) becomes a response    *)
(* with that status and detail and no body; an exception no handler        *)
(* catches becomes the framework's 500.                                    *)
(***************************************************************************)
NoBody == [kind |-> "none"]
HTTPException(status_code, detail) ==
    [status |-> status_code, detail |-> detail, body |-> NoBody]
Ok(body) == [status |-> 200, detail |-> None, body |-> body]
InternalServerError == HTTPException(500, "Internal Server Error")

(***************************************************************************)
(* Credential codec (app/auth.py).  A hash is the salt with the digest of  *)
(* salt and plaintext; the digest is an uninterpreted pair.                *)
(***************************************************************************)
Digest(salt, plaintext) == <<"digest", salt, plaintext>>
get_password_hash(plaintext, salt) ==
    [salt |-> salt, digest |-> Digest(salt, plaintext)]
verify_password(plaintext, hashed) ==
    hashed.digest = Digest(hashed.salt, plaintext)

(***************************************************************************)
(* Token service (app/auth.py).  A token carries its subject, its expiry   *)
(* and the key that signed it; a malformed token carries nothing usable.   *)
(***************************************************************************)
create_access_token(sub, expires_delta, t) ==
    [sub |-> sub, exp |-> t + expires_delta, key |-> SECRET_KEY, wellformed |-> TRUE]
decode_token(token, t) ==
    IF ~token.wellformed THEN None
    ELSE IF token.key # SECRET_KEY THEN None
    ELSE IF t >= token.exp THEN None
    ELSE token.sub

\* Tokens a client can make up without the signing key.
ForgedTokens ==
    {[sub |-> e, exp |-> MaxTime + ACCESS_TOKEN_EXPIRE_MINUTES + 1,
      key |-> "attacker-key", wellformed |-> TRUE] : e \in Emails}
    \cup {[sub |-> None, exp |-> 0, key |-> None, wellformed |-> FALSE]}
IssuedTokens == {i.token : i \in issued}
PresentableTokens == IssuedTokens \cup ForgedTokens
Malformed == [sub |-> None, exp |-> 0, key |-> None, wellformed |-> FALSE]

(***************************************************************************)
(* User store.                                                             *)
(***************************************************************************)
MaxOf(S) == CHOOSE m \in S : \A x \in S : x <= m
NextUserId(us) == IF us = {} THEN 1 ELSE MaxOf({u.id : u \in us}) + 1

\* db.query(User).filter(User.email == email).first()
FindByEmail(us, email) ==
    IF \E u \in us : u.email = email
    THEN LET m == {u \in us : u.email = email}
         IN  CHOOSE u \in m : \A v \in m : u.id <= v.id
    ELSE [id |-> NoUser]

get_user_by_email(us, email) == FindByEmail(us, email)

\* The row create_user builds and adds to the session.
NewUser(us, user, salt) ==
    [id |-> NextUserId(us), email |-> user.email, full_name |-> user.full_name,
     hashed_password |-> get_password_hash(user.password, salt), is_active |-> TRUE]

\* The commit of an added user row: the table's unique e-mail index rejects
\* a second row for the same e-mail.
UniqueViolation(us, row) == \E u \in us : u.email = row.email

\* UserResponse: the public view, without the hash.
UserResponse(u) ==
    [id |-> u.id, email |-> u.email, full_name |-> u.full_name, is_active |-> u.is_active]

UserCreates == [email : Emails, full_name : Names, password : Passwords]
LoginRequests == [email : Emails, password : Passwords]

\* authenticate_user with the password check dropped.
authenticate_user_NoVerify(us, email, password) ==
    get_user_by_email(us, email)

authenticate_user(us, email, password) ==
    LET user == get_user_by_email(us, email)
    IN  IF user.id = NoUser \/ ~verify_password(password, user.hashed_password)
        THEN [id |-> NoUser]
        ELSE user

\* get_current_user with the e-mail filter dropped from the user query.
get_current_user_AnyUser(us, token, t) ==
    LET email == decode_token(token, t)
    IN  IF email = None
        THEN HTTPException(401, "Invalid authentication credentials")
        ELSE IF us = {}
             THEN HTTPException(401, "User not found")
             ELSE Ok([kind |-> "user",
                      val |-> CHOOSE u \in us : \A v \in us : u.id <= v.id])

get_current_user(us, token, t) ==
    LET email == decode_token(token, t)
    IN  IF email = None
        THEN HTTPException(401, "Invalid authentication credentials")
        ELSE LET user == FindByEmail(us, email)
             IN  IF user.id = NoUser
                 THEN HTTPException(401, "User not found")
                 ELSE Ok([kind |-> "user", val |-> user])

\* login with the expiry passed in the wrong unit.
login_WrongDelta(us, credentials, t) ==
    LET user == authenticate_user(us, credentials.email, credentials.password)
    IN  IF user.id = NoUser
        THEN HTTPException(401, "Invalid credentials")
        ELSE Ok([kind |-> "token",
                 access_token |-> create_access_token(user.email,
                                     ACCESS_TOKEN_EXPIRE_MINUTES * 60, t),
                 token_type |-> "bearer"])

login(us, credentials, t) ==
    LET user == authenticate_user(us, credentials.email, credentials.password)
    IN  IF user.id = NoUser
        THEN HTTPException(401, "Invalid credentials")
        ELSE Ok([kind |-> "token",
                 access_token |-> create_access_token(user.email,
                                     ACCESS_TOKEN_EXPIRE_MINUTES, t),
                 token_type |-> "bearer"])

(***************************************************************************)
(* The last request served: the operation, the authenticated requester     *)
(* (NoUser when there is none), the path or key argument, the request      *)
(* body and the response.                                                  *)
(***************************************************************************)
NoReq == [kind |-> "none"]
Served(op, uid, arg, req, resp) ==
    [op |-> op, uid |-> uid, arg |-> arg, req |-> req,
     status |-> resp.status, detail |-> resp.detail, body |-> resp.body]

Init ==
    /\ users = {}
    /\ pending = EmptyBag
    /\ issued = {}
    /\ now = 0
    /\ tasks = {}
    /\ creator = {}
    /\ last = Served("start", NoUser, None, NoReq, Ok(NoBody))

(***************************************************************************)
(* POST /api/auth/register.  The pre-check and the insert are two          *)
(* statements of the store; requests of other clients run between them.    *)
(***************************************************************************)
\* register without the pre-check.
register_precheck_Skipped(us, user) == FALSE

\* routes/auth.py line 14: if get_user_by_email(db, user.email)
register_precheck(us, user) == get_user_by_email(us, user.email).id # NoUser

RegisterCheck(user) ==
    /\ IF register_precheck(users, user)
       THEN /\ last' = Served("register", NoUser, user.email,
                              [kind |-> "register", step |-> "check", val |-> user],
                              HTTPException(400, "Email already registered"))
            /\ UNCHANGED pending
       ELSE /\ BagCardinality(pending) < MaxInFlight
            /\ pending' = pending (+) SetToBag({user})
            /\ last' = Served("register", NoUser, user.email,
                              [kind |-> "register", step |-> "check", val |-> user],
                              [status |-> 0, detail |-> None, body |-> NoBody])
    /\ UNCHANGED <<users, issued, now, tasks, creator>>

\* create_user(db, user): add, commit, refresh, return.
RegisterInsert(user, salt) ==
    /\ BagIn(user, pending)
    /\ pending' = pending (-) SetToBag({user})
    /\ LET row == NewUser(users, user, salt)
       IN  IF UniqueViolation(users, row)
           THEN /\ UNCHANGED users
                /\ last' = Served("register", NoUser, user.email,
                                  [kind |-> "register", step |-> "insert", val |-> user],
                                  InternalServerError)
           ELSE /\ row.id <= MaxUserId
                /\ users' = users \cup {row}
                /\ last' = Served("register", NoUser, user.email,
                                  [kind |-> "register", step |-> "insert", val |-> user],
                                  Ok([kind |-> "user", val |-> UserResponse(row)]))
    /\ UNCHANGED <<issued, now, tasks, creator>>

(***************************************************************************)
(* POST /api/auth/login                                                    *)
(***************************************************************************)
Login(credentials) ==
    LET resp == login(users, credentials, now)
        user == FindByEmail(users, credentials.email)
    IN  /\ IF resp.status = 200
           THEN LET entry == [token |-> resp.body.access_token,
                              uid |-> user.id,
                              t0 |-> now,
                              verified |-> /\ user.id # NoUser
                                           /\ verify_password(credentials.password,
                                                              user.hashed_password)]
                IN  /\ entry \in issued \/ Cardinality(issued) < MaxTokens
                    /\ issued' = issued \cup {entry}
           ELSE UNCHANGED issued
        /\ last' = Served("login", NoUser, credentials.email,
                          [kind |-> "login", val |-> credentials], resp)
        /\ UNCHANGED <<users, pending, now, tasks, creator>>

(***************************************************************************)
(* GET /api/users/me                                                       *)
(***************************************************************************)
GetProfile(token) ==
    LET auth == get_current_user(users, token, now)
    IN  /\ last' = Served("me", IF auth.status = 200 THEN auth.body.val.id ELSE NoUser,
                          None, [kind |-> "token", val |-> token],
                          IF auth.status = 200
                          THEN Ok([kind |-> "user", val |-> UserResponse(auth.body.val)])
                          ELSE auth)
        /\ UNCHANGED <<users, pending, issued, now, tasks, creator>>

(***************************************************************************)
(* The clock.                                                              *)
(***************************************************************************)
ClockSteps == {ACCESS_TOKEN_EXPIRE_MINUTES - 1, ACCESS_TOKEN_EXPIRE_MINUTES}
Tick(d) ==
    /\ now + d <= MaxTime
    /\ now' = now + d
    /\ last' = Served("tick", NoUser, None, NoReq, Ok(NoBody))
    /\ UNCHANGED <<users, pending, issued, tasks, creator>>

Next ==
    \/ \E user \in UserCreates : RegisterCheck(user)
    \/ \E user \in UserCreates, salt \in Salts : RegisterInsert(user, salt)
    \/ \E credentials \in LoginRequests : Login(credentials)
    \/ \E token \in PresentableTokens : GetProfile(token)
    \/ \E d \in ClockSteps : Tick(d)

Spec == Init /\ [][Next]_vars
(***************************************************************************)
(* Removal of a user row by the store's operator.  No handler of the API   *)
(* deletes a user; the identity resolver's "User not found" branch is for  *)
(* a token that outlives its user's row.                                   *)
(***************************************************************************)
StoreDeleteUser(u) ==
    /\ u \in users
    /\ users' = users \ {u}
    /\ last' = Served("store_delete_user", NoUser, u.email, NoReq, Ok(NoBody))
    /\ UNCHANGED <<pending, issued, now, tasks, creator>>

NextStore ==
    \/ Next
    \/ \E u \in users : StoreDeleteUser(u)

SpecStore == Init /\ [][NextStore]_vars

(***************************************************************************)
(* Task store and the owner-scoped operations of crud.py.                  *)
(***************************************************************************)
Unset == "<unset>"
Titles == {"ab", "B"}
Descriptions == {"d"}
Statuses == {"pending", "done"}
Searches == {None, "A"}
DefaultStatus == "pending"
DefaultSkip == 0
DefaultLimit == 100
NoTask == [id |-> 0]

\* The characters of the strings in use.
Chars(str) ==
    CASE str = "ab" -> <<"a", "b">>
      [] str = "B" -> <<"B">>
      [] str = "A" -> <<"A">>
      [] OTHER -> <<>>
Lower(c) ==
    CASE c = "A" -> "a"
      [] c = "B" -> "b"
      [] OTHER -> c

\* SQL LIKE on character sequences, case folded (ILIKE): % matches any run
\* of characters, _ matches one character.
RECURSIVE Like(_, _)
Like(pattern, str) ==
    IF pattern = <<>> THEN str = <<>>
    ELSE IF Head(pattern) = "%"
         THEN \/ Like(Tail(pattern), str)
              \/ (str # <<>> /\ Like(pattern, Tail(str)))
         ELSE /\ str # <<>>
              /\ (Head(pattern) = "_" \/ Lower(Head(pattern)) = Lower(Head(str)))
              /\ Like(Tail(pattern), Tail(str))
ilike(title, search) == Like(<<"%">> \o Chars(search) \o <<"%">>, Chars(title))

\* Rows of a query in primary-key order.
RECURSIVE InIdOrder(_)
InIdOrder(S) ==
    IF S = {} THEN <<>>
    ELSE LET t == CHOOSE x \in S : \A y \in S : x.id <= y.id
         IN  <<t>> \o InIdOrder(S \ {t})
OffsetLimit(rows, skip, limit) ==
    SubSeq(rows, skip + 1, IF Len(rows) < skip + limit THEN Len(rows) ELSE skip + limit)

NextTaskId(ts) == IF ts = {} THEN 1 ELSE MaxOf({t.id : t \in ts}) + 1

\* Request bodies as sent: a key that is absent is Unset (owner_id: NoUser).
\* A body may carry an owner_id key, which neither schema declares.  An
\* explicit null is sent for description only: what the table does with a
\* null title or status is decided by app/models.py.
RawTaskCreates ==
    {[title |-> "ab", description |-> "d", owner_id |-> NoUser],
     [title |-> "B", description |-> Unset, owner_id |-> NoUser],
     [title |-> "ab", description |-> Unset, owner_id |-> 2],
     [title |-> "B", description |-> "d", owner_id |-> 1]}
RawTaskUpdates ==
    {[title |-> Unset, description |-> Unset, status |-> "done", owner_id |-> NoUser],
     [title |-> "B", description |-> Unset, status |-> Unset, owner_id |-> NoUser],
     [title |-> Unset, description |-> None, status |-> Unset, owner_id |-> 1],
     [title |-> "ab", description |-> "d", status |-> "pending", owner_id |-> 2],
     [title |-> Unset, description |-> Unset, status |-> Unset, owner_id |-> NoUser]}

\* schemas.TaskCreate: title, description (default None); other keys are dropped.
TaskCreate(raw) ==
    [title |-> raw.title,
     description |-> IF raw.description = Unset THEN None ELSE raw.description]

\* TaskUpdate that also declares owner_id.
TaskUpdate_WithOwner(raw) ==
    [fields_set |-> {k \in {"title", "description", "status"} : raw[k] # Unset}
                    \cup (IF raw.owner_id # NoUser THEN {"owner_id"} ELSE {}),
     title |-> IF raw.title = Unset THEN None ELSE raw.title,
     description |-> IF raw.description = Unset THEN None ELSE raw.description,
     status |-> IF raw.status = Unset THEN None ELSE raw.status,
     owner_id |-> raw.owner_id]

\* schemas.TaskUpdate: three optional fields, default None, and the set of
\* fields the request gave; other keys are dropped.
TaskUpdate(raw) ==
    [fields_set |-> {k \in {"title", "description", "status"} : raw[k] # Unset},
     title |-> IF raw.title = Unset THEN None ELSE raw.title,
     description |-> IF raw.description = Unset THEN None ELSE raw.description,
     status |-> IF raw.status = Unset THEN None ELSE raw.status]

\* task.model_dump(exclude_unset=True)
model_dump_exclude_unset(task) == [k \in task.fields_set |-> task[k]]

\* create_task
create_task(ts, task, owner_id) ==
    [id |-> NextTaskId(ts), title |-> task.title, description |-> task.description,
     status |-> DefaultStatus, owner_id |-> owner_id]

get_user_tasks(ts, owner_id, skip, limit) ==
    OffsetLimit(InIdOrder({t \in ts : t.owner_id = owner_id}), skip, limit)

\* search_tasks with the owner filter dropped.
search_tasks_AnyOwner(ts, owner_id, search) ==
    InIdOrder({t \in ts : ilike(t.title, search)})

search_tasks(ts, owner_id, search) ==
    InIdOrder({t \in ts : t.owner_id = owner_id /\ ilike(t.title, search)})

\* get_task with the owner filter dropped.
get_task_AnyOwner(ts, task_id, owner_id) ==
    IF \E t \in ts : t.id = task_id
    THEN CHOOSE t \in ts : t.id = task_id
    ELSE NoTask

get_task(ts, task_id, owner_id) ==
    IF \E t \in ts : t.id = task_id /\ t.owner_id = owner_id
    THEN CHOOSE t \in ts : t.id = task_id /\ t.owner_id = owner_id
    ELSE NoTask

\* The row after the setattr loop over a dump.
SetAttrs(row, dump) ==
    [k \in DOMAIN row |-> IF k \in DOMAIN dump THEN dump[k] ELSE row[k]]

\* update_task dumping with exclude_none instead of exclude_unset.
update_task_ExcludeNone(ts, task_id, owner_id, task) ==
    LET db_task == get_task(ts, task_id, owner_id)
    IN  IF db_task.id = NoTask.id
        THEN [found |-> FALSE, tasks |-> ts, task |-> NoTask]
        ELSE LET dump == [k \in {f \in {"title", "description", "status"} :
                                    task[f] # None} |-> task[k]]
                 row == SetAttrs(db_task, dump)
             IN  [found |-> TRUE, tasks |-> (ts \ {db_task}) \cup {row}, task |-> row]

update_task(ts, task_id, owner_id, task) ==
    LET db_task == get_task(ts, task_id, owner_id)
    IN  IF db_task.id = NoTask.id
        THEN [found |-> FALSE, tasks |-> ts, task |-> NoTask]
        ELSE LET row == SetAttrs(db_task, model_dump_exclude_unset(task))
             IN  [found |-> TRUE, tasks |-> (ts \ {db_task}) \cup {row}, task |-> row]

delete_task(ts, task_id, owner_id) ==
    LET db_task == get_task(ts, task_id, owner_id)
    IN  IF db_task.id # NoTask.id
        THEN [found |-> TRUE, tasks |-> ts \ {db_task}]
        ELSE [found |-> FALSE, tasks |-> ts]

TaskIds == 1..MaxTaskId

(***************************************************************************)
(* routes/tasks.py.  Every handler first resolves the bearer token.        *)
(***************************************************************************)
CreateNewTask(token, raw) ==
    LET auth == get_current_user(users, token, now)
    IN  IF auth.status # 200
        THEN /\ last' = Served("create", NoUser, None, NoReq, auth)
             /\ UNCHANGED <<users, pending, issued, now, tasks, creator>>
        ELSE LET current_user == auth.body.val
                 row == create_task(tasks, TaskCreate(raw), current_user.id)
             IN  /\ row.id <= MaxTaskId
                 /\ tasks' = tasks \cup {row}
                 /\ creator' = creator \cup {[id |-> row.id, uid |-> current_user.id]}
                 /\ last' = Served("create", current_user.id, row.id,
                                   [kind |-> "create", owner_id |-> raw.owner_id],
                                   Ok([kind |-> "task", val |-> row]))
                 /\ UNCHANGED <<users, pending, issued, now>>

ListTasks(token, search) ==
    LET auth == get_current_user(users, token, now)
    IN  /\ IF auth.status # 200
           THEN last' = Served("list", NoUser, None, NoReq, auth)
           ELSE LET current_user == auth.body.val
                IN  last' = Served("list", current_user.id, search, NoReq,
                            Ok([kind |-> "tasks",
                                val |-> IF search # None
                                        THEN search_tasks(tasks, current_user.id, search)
                                        ELSE get_user_tasks(tasks, current_user.id,
                                                            DefaultSkip, DefaultLimit)]))
        /\ UNCHANGED <<users, pending, issued, now, tasks, creator>>

GetSingleTask(token, task_id) ==
    LET auth == get_current_user(users, token, now)
    IN  /\ IF auth.status # 200
           THEN last' = Served("get", NoUser, None, NoReq, auth)
           ELSE LET current_user == auth.body.val
                    task == get_task(tasks, task_id, current_user.id)
                IN  last' = Served("get", current_user.id, task_id, NoReq,
                                   IF task.id = NoTask.id
                                   THEN HTTPException(404, "Task not found")
                                   ELSE Ok([kind |-> "task", val |-> task]))
        /\ UNCHANGED <<users, pending, issued, now, tasks, creator>>

UpdateSingleTask(token, task_id, raw) ==
    LET auth == get_current_user(users, token, now)
    IN  IF auth.status # 200
        THEN /\ last' = Served("update", NoUser, None, NoReq, auth)
             /\ UNCHANGED <<users, pending, issued, now, tasks, creator>>
        ELSE LET current_user == auth.body.val
                 task_update == TaskUpdate(raw)
                 res == update_task(tasks, task_id, current_user.id, task_update)
             IN  /\ tasks' = res.tasks
                 /\ last' = IF res.found
                            THEN Served("update", current_user.id, task_id,
                                        [kind |-> "update", given |-> raw],
                                        Ok([kind |-> "task", val |-> res.task]))
                            ELSE Served("update", current_user.id, task_id, NoReq,
                                        HTTPException(404, "Task not found"))
                 /\ UNCHANGED <<users, pending, issued, now, creator>>

DeleteSingleTask(token, task_id) ==
    LET auth == get_current_user(users, token, now)
    IN  IF auth.status # 200
        THEN /\ last' = Served("delete", NoUser, None, NoReq, auth)
             /\ UNCHANGED <<users, pending, issued, now, tasks, creator>>
        ELSE LET current_user == auth.body.val
                 res == delete_task(tasks, task_id, current_user.id)
             IN  /\ tasks' = res.tasks
                 /\ creator' = IF res.found
                               THEN {c \in creator : c.id # task_id}
                               ELSE creator
                 /\ last' = Served("delete", current_user.id, task_id, NoReq,
                                   IF res.found
                                   THEN Ok([kind |-> "message",
                                            val |-> "Task deleted successfully"])
                                   ELSE HTTPException(404, "Task not found"))
                 /\ UNCHANGED <<users, pending, issued, now>>

\* Two registered users, each holding the token of a login at time 0.
Registered ==
    LET ann == NewUser({}, [email |-> "a@x.io", full_name |-> "Ann", password |-> "pw1"], "s1")
        bob == NewUser({ann}, [email |-> "b@x.io", full_name |-> "Ann", password |-> "pw2"], "s1")
    IN  {ann, bob}
LoggedIn ==
    {[token |-> create_access_token(u.email, ACCESS_TOKEN_EXPIRE_MINUTES, 0),
      uid |-> u.id, t0 |-> 0, verified |-> TRUE] : u \in Registered}

InitTasks ==
    /\ users = Registered
    /\ pending = EmptyBag
    /\ issued = LoggedIn
    /\ now = 0
    /\ tasks = {}
    /\ creator = {}
    /\ last = Served("start", NoUser, None, NoReq, Ok(NoBody))

\* The tokens of the logged-in users and one that does not verify.
TaskTokens == IssuedTokens \cup {Malformed}

NextTasks ==
    \/ \E token \in TaskTokens, raw \in RawTaskCreates : CreateNewTask(token, raw)
    \/ \E token \in TaskTokens, search \in Searches : ListTasks(token, search)
    \/ \E token \in TaskTokens, task_id \in TaskIds : GetSingleTask(token, task_id)
    \/ \E token \in TaskTokens, task_id \in TaskIds, raw \in RawTaskUpdates :
          UpdateSingleTask(token, task_id, raw)
    \/ \E token \in TaskTokens, task_id \in TaskIds : DeleteSingleTask(token, task_id)

SpecTasks == InitTasks /\ [][NextTasks]_vars

(***************************************************************************)
(* Properties of the authentication flow (Spec, SpecStore).                *)
(***************************************************************************)

\* C3: when two register requests for one e-mail both pass the pre-check, the
\* request whose insert comes second is answered with the conflict response
\* and the table holds exactly one row for that e-mail.
C3_RaceLoserGetsConflict ==
    (last.op = "register" /\ last.req.step = "insert" /\ last.status # 200)
        => /\ last.status = 400
           /\ last.detail = "Email already registered"
           /\ Cardinality({u \in users : u.email = last.arg}) = 1

\* C4: a register call for an e-mail that already has a row is answered with
\* the conflict response, inserts nothing and leaves every row as it was.
C4_DuplicateRegisterConflict ==
    [][(/\ last'.op = "register"
        /\ last'.req.step = "check"
        /\ \E u \in users : u.email = last'.arg)
          => /\ last'.status = 400
             /\ last'.detail = "Email already registered"
             /\ last'.body.kind = "none"
             /\ users' = users
             /\ pending' = pending]_vars

\* A second register for a taken e-mail, with another password, was refused.
C4_Witness ==
    /\ last.op = "register"
    /\ last.status = 400
    /\ \E u \in users : /\ u.email = last.arg
                        /\ ~verify_password(last.req.val.password, u.hashed_password)

\* C5: a token of a successful login at t0 resolves to that user's row at
\* every time before t0 + TTL and is rejected as unauthorized at every time
\* from t0 + TTL on.
C5_TokenValidUntilExpiry ==
    \A i \in issued :
        LET r == get_current_user(users, i.token, now)
        IN  IF now < i.t0 + ACCESS_TOKEN_EXPIRE_MINUTES
            THEN /\ r.status = 200
                 /\ r.body.val.id = i.uid
                 /\ r.body.val.email = i.token.sub
                 /\ r.body.val \in users
            ELSE r.status = 401

\* A token of a login was presented after its expiry and refused.
C5_Witness ==
    /\ last.op = "me"
    /\ last.status = 401
    /\ last.req.val \in IssuedTokens
    /\ now >= last.req.val.exp
    /\ \E u \in users : u.email = last.req.val.sub

\* C6: every failure of the identity resolver is the same response, the one
\* a malformed token gets, whatever its cause.
C6_UnauthorizedUndifferentiated ==
    (last.op = "me" /\ last.status # 200)
        => LET bad == get_current_user(users, Malformed, now)
           IN  /\ last.status = bad.status
               /\ last.detail = bad.detail

\* C7: login answers with a bearer token exactly when the e-mail has a row
\* and the password verifies against its hash; otherwise it answers with the
\* one "Invalid credentials" response and no token.
C7_LoginIffCredentials ==
    last.op = "login" =>
        LET cred == last.req.val
            good == \E u \in users : /\ u.email = cred.email
                                     /\ verify_password(cred.password, u.hashed_password)
        IN  IF good
            THEN /\ last.status = 200
                 /\ last.body.kind = "token"
                 /\ last.body.token_type = "bearer"
                 /\ last.body.access_token.sub = cred.email
                 /\ last.body.access_token \in IssuedTokens
            ELSE /\ last.status = 401
                 /\ last.detail = "Invalid credentials"
                 /\ last.body.kind = "none"

\* A login with a registered e-mail and the wrong password was refused.
C7_Witness ==
    /\ last.op = "login"
    /\ last.status = 401
    /\ \E u \in users : u.email = last.arg

\* C10: a token that the resolver accepts was handed out by a login with the
\* resolved user's e-mail and a password that verified; register and failed
\* logins hand out no token; a token of one user never resolves to another.
C10_AuthenticationSound ==
    /\ \A tok \in PresentableTokens :
          LET r == get_current_user(users, tok, now)
          IN  r.status = 200 =>
                 \E i \in issued : /\ i.token = tok
                                   /\ i.verified
                                   /\ i.uid = r.body.val.id
                                   /\ tok.sub = r.body.val.email
    /\ \A i \in issued :
          LET r == get_current_user(users, i.token, now)
          IN  r.status = 200 => r.body.val.id = i.uid
    /\ last.op = "register" => last.body.kind # "token"
    /\ (last.op = "login" /\ last.status # 200) => last.body.kind = "none"

\* With two users registered and forged tokens at hand, the second user's
\* token resolved to the second user.
C10_Witness ==
    /\ last.op = "me"
    /\ last.status = 200
    /\ Cardinality(users) = 2
    /\ last.uid = 2
    /\ last.req.val \in IssuedTokens

(***************************************************************************)
(* Properties of the task operations (SpecTasks).                          *)
(***************************************************************************)

\* C1: get, update and delete of a task id by an authenticated requester
\* that owns no task with that id are answered "Task not found" and leave
\* the task table as it was, whether the id is unused or another user's.
C1_NonOwnerNotFound ==
    [][(/\ last'.op \in {"get", "update", "delete"}
        /\ last'.uid # NoUser
        /\ ~\E t \in tasks : t.id = last'.arg /\ t.owner_id = last'.uid)
          => /\ last'.status = 404
             /\ last'.detail = "Task not found"
             /\ last'.body.kind = "none"
             /\ tasks' = tasks]_vars

\* A delete of another user's existing task was answered not-found.
C1_Witness ==
    /\ last.op = "delete"
    /\ last.uid # NoUser
    /\ last.status = 404
    /\ \E t \in tasks : t.id = last.arg /\ t.owner_id # last.uid

\* C2: every task in a list response, with or without a search string, is
\* owned by the requester.
C2_ListOnlyOwn ==
    (last.op = "list" /\ last.status = 200)
        => \A n \in 1..Len(last.body.val) : last.body.val[n].owner_id = last.uid

\* A search returned a task while another user's task matched it too.
C2_Witness ==
    /\ last.op = "list"
    /\ last.status = 200
    /\ last.arg # None
    /\ Len(last.body.val) > 0
    /\ \E t \in tasks : t.owner_id # last.uid /\ ilike(t.title, last.arg)

\* C8: a successful update sets the fields of title, description, status
\* that the request carries to the values it carries, keeps the others and
\* id and owner_id, and changes no other task.
C8_PartialUpdate ==
    [][(last'.op = "update" /\ last'.status = 200)
          => \E old \in tasks :
                LET new == last'.body.val
                    given == last'.req.given
                IN  /\ old.id = last'.arg
                    /\ old.owner_id = last'.uid
                    /\ new.id = old.id
                    /\ new.owner_id = old.owner_id
                    /\ \A k \in {"title", "description", "status"} :
                          new[k] = IF given[k] # Unset THEN given[k] ELSE old[k]
                    /\ tasks' = (tasks \ {old}) \cup {new}]_vars

\* An update carrying only a status was applied to one of two tasks.
C8_Witness ==
    /\ last.op = "update"
    /\ last.status = 200
    /\ last.req.given.status = "done"
    /\ last.req.given.title = Unset
    /\ last.req.given.description = Unset
    /\ last.body.val.description = "d"
    /\ Cardinality(tasks) = 2

\* C9: a created task is owned by the authenticated requester, whatever
\* owner_id the body carries, and every task stays owned by its creator.
C9_OwnerIsCreator ==
    /\ (last.op = "create" /\ last.status = 200)
          => /\ last.body.val.owner_id = last.uid
             /\ last.body.val \in tasks
    /\ \A t \in tasks : \E c \in creator : c.id = t.id /\ c.uid = t.owner_id
    /\ \A c \in creator, d \in creator : c.id = d.id => c.uid = d.uid

\* An update whose body carried another user's id as owner_id was applied.
C9_Witness ==
    /\ last.op = "update"
    /\ last.status = 200
    /\ last.req.given.owner_id # NoUser
    /\ last.req.given.owner_id # last.uid
    /\ last.body.val.owner_id = last.uid
====
